---- MODULE Spec2Model ----
(***************************************************************************)
(* A model of TerncyGateway (custom_components/terncy/core/gateway.py):    *)
(* the connection lifecycle (start / stop / reconnect), the event handler  *)
(* of the session client and its per-type reducers, device and scene       *)
(* setup, the topology refresh task, the listener registry and the         *)
(* attribute-write commands.                                               *)
(*                                                                         *)
(* The asyncio event loop is modelled by interleaving: every action is one *)
(* run of a callback or of a coroutine between two suspension points.      *)
(***************************************************************************)
EXTENDS Integers, Sequences, FiniteSets, TLC

VARIABLES
    started,              \* start() has armed the discovery listeners and the event handler
    stopped,              \* self._stopped
    connected,            \* self.api.is_connected()
    closing,              \* api.stop() closed a live session; its Disconnected event is still to come
    tasks,                \* coroutines in flight on the event loop, per suspension point
    parsed_devices,       \* self.parsed_devices : eid -> TerncyDevice
    listeners,            \* self._listeners : eid -> set of callbacks
    room_data,            \* self.room_data : room id -> room name
    scenes,               \* self.scenes : scene id -> scene entity
    registry,             \* identifiers held by the host device registry
    hass_entities,        \* presentation objects handed to ha_add_entity, counted per (id, key)
    export_device_groups, \* self.export_device_groups
    export_scenes,        \* self.export_scenes
    calls                 \* log lines and collaborator calls made by the latest step, in order

vars == <<started, stopped, connected, closing, tasks, parsed_devices, listeners,
          room_data, scenes, registry, hass_entities, export_device_groups,
          export_scenes, calls>>

(***************************************************************************)
(* Bounds of the model                                                     *)
(***************************************************************************)
\* at most this many stop, connect or reconnect coroutines wait at one suspension point
MaxTasks == 2
\* at most this many async_refresh_devices coroutines are in flight
MaxRefresh == 1
\* at most this many per-entity payloads in one inbound message
MaxMsgLen == 2

(***************************************************************************)
(* Generic helpers on dicts (partial functions) and lists                  *)
(***************************************************************************)
Put(f, k, v) == [x \in DOMAIN f \cup {k} |-> IF x = k THEN v ELSE f[x]]

Drop(f, k) == [x \in DOMAIN f \ {k} |-> f[x]]

EmptyDict == [x \in {} |-> 0]

Range(s) == {s[i] : i \in DOMAIN s}

SeqsUpTo(S, n) == UNION {[1..k -> S] : k \in 0..n}

(***************************************************************************)
(* Identifiers of the hub's world                                          *)
(***************************************************************************)
\* self.unique_id: the hub's own device id
unique_id == "box"
\* identifier of the shared device that holds the scene switches
scenes_device == "box_scenes"
UNDEFINED == "UNDEFINED"
\* the ids the hub gives its scenes: those that start with "scene-"
SceneIds == {"scene-1"}

(***************************************************************************)
(* Collaborators whose code lies outside gateway.py                        *)
(***************************************************************************)
\* one entry of `calls`: a log line or a call on a collaborator
Call(op, id, arg, data) == [op |-> op, id |-> id, arg |-> arg, data |-> data]

\* ..profiles.PROFILES: profile -> presentation descriptions
PROFILES ==
    (1 :> << [key |-> "switch", required_attrs |-> {"on"}],
             [key |-> "dimmer", required_attrs |-> {"on", "brightness"}] >>)
    @@ (2 :> << [key |-> "sensor", required_attrs |-> {}] >>)

\* .device.TerncyDevice(did, eid, profile)
TerncyDevice(did, eid, profile) ==
    [did |-> did, eid |-> eid, profile |-> profile, available |-> TRUE,
     state |-> EmptyDict, entities |-> <<>>]

\* TerncyDevice.set_available / TerncyEntity.set_available: a flag write
set_available(device, available) == [device EXCEPT !.available = available]

\* TerncyDevice.update_state / TerncyEntity.update_state: merge {attr, value} pairs
RECURSIVE MergeAttrs(_, _, _)
MergeAttrs(state, attributes, i) ==
    IF i > Len(attributes) THEN state
    ELSE MergeAttrs(Put(state, attributes[i].attr, attributes[i].value), attributes, i + 1)

update_state(device, attributes) ==
    [device EXCEPT !.state = MergeAttrs(device.state, attributes, 1)]

\* dict.get(key, default) on a payload
Get(d, key, default) == IF key \in DOMAIN d THEN d[key] ELSE default

\* the gateway's mutable collections as one value, for the reducers below
G == [parsed_devices |-> parsed_devices, scenes |-> scenes, registry |-> registry,
      hass_entities |-> hass_entities, calls |-> <<>>]

\* ha_add_entity(hass, config_entry, entity): one more presentation object
ha_add_entity(g, id, key) ==
    [g EXCEPT !.hass_entities = Put(@, <<id, key>>, Get(@, <<id, key>>, 0) + 1),
              !.calls = Append(@, Call("ha_add_entity", id, key, <<>>))]

\* device_registry.async_get_or_create(identifiers={(DOMAIN, id)}, ...)
async_get_or_create(g, id, suggested_area) ==
    [g EXCEPT !.registry = @ \cup {id},
              !.calls = Append(@, Call("async_get_or_create", id, suggested_area, <<>>))]

\* device_registry.async_remove_device(entry.id); the host drops the entry's entities with it
async_remove_device(g, id) ==
    [g EXCEPT !.registry = @ \ {id},
              !.hass_entities = [k \in {x \in DOMAIN @ : x[1] # id} |-> @[k]],
              !.calls = Append(@, Call("async_remove_device", id, "", <<>>))]

\* ..const: the labels of the button events; EVENT_ENTITY_BUTTON_EVENTS[n] is "n presses"
ACTION_SINGLE_PRESS == "single_press"

ACTION_PRESSED == "pressed"

ACTION_LONG_PRESS == "long_press"

ACTION_ROTATION == "rotation"

EVENT_ENTITY_BUTTON_EVENTS ==
    <<ACTION_SINGLE_PRESS, "double_press", "triple_press", "4_press", "5_press",
      "6_press", "7_press", "8_press", "9_press">>

\* the event data {EVENT_DATA_CLICK_TIMES: times}
ClickTimes(times) == << [attr |-> "click_times", value |-> times] >>

\* TerncyDevice.trigger_event(event_type, data): the local device-level trigger
trigger_event(g, eid, event_type, data) ==
    [g EXCEPT !.calls = Append(@, Call("trigger_event", eid, event_type, data))]

\* self.hass.bus.async_fire(f"{DOMAIN}_{action}", {device_id, source: eid, ...data})
async_fire(g, eid, action, data) ==
    [g EXCEPT !.calls = Append(@, Call("bus.async_fire", eid, action, data))]

(***************************************************************************)
(* Device setup                                                            *)
(***************************************************************************)
\* the room lookup of setup_device: `if room := data.get("room"): if name := room_data.get(room)`
RoomName(data, suggested_area) ==
    LET room == Get(data, "room", "")
        name == IF room # "" THEN Get(room_data, room, "") ELSE ""
    IN  IF name # "" THEN name ELSE suggested_area

\* Descriptions, had setup_device not filtered by the required attributes
DescriptionsAll(profile, attributes) == PROFILES[profile]

\* the descriptions of a profile whose required attributes are all reported
Descriptions(profile, attributes) ==
    LET attrs == {attributes[k].attr : k \in DOMAIN attributes}
    IN  SelectSeq(PROFILES[profile], LAMBDA d : d.required_attrs \subseteq attrs)

\* AddEntities, had setup_device built no presentation object
AddEntitiesNone(g, eid, descriptions, i) == g

\* create_entity + ha_add_entity + device.entities.append for descriptions[i..]
RECURSIVE AddEntities(_, _, _, _)
AddEntities(g, eid, descriptions, i) ==
    IF i > Len(descriptions) THEN g
    ELSE LET key == descriptions[i].key
             added == ha_add_entity(g, eid, key)
             device == added.parsed_devices[eid]
         IN  AddEntities(
                 [added EXCEPT !.parsed_devices[eid] =
                     [device EXCEPT !.entities = Append(@, key)]],
                 eid, descriptions, i + 1)

\* `if not device:` of setup_device: the branch that creates the record of a new eid
NewDevice(g, device_data, svc, suggested_area) ==
    LET eid == svc.id
        profile == Get(svc, "profile", 0)
        attributes == Get(svc, "attributes", <<>>)
        device == TerncyDevice(device_data.id, eid, profile)
    IN  IF profile \in DOMAIN PROFILES
        THEN LET area == RoomName(svc, suggested_area)
                 descriptions == Descriptions(profile, attributes)
             IN  IF Len(descriptions) > 0
                 THEN LET reg == async_get_or_create(g, eid, area)
                          put == [reg EXCEPT !.parsed_devices = Put(@, eid, device)]
                      IN  [g |-> AddEntities(put, eid, descriptions, 1),
                           suggested_area |-> area]
                 ELSE [g |-> g, suggested_area |-> area]
        ELSE [g |-> [g EXCEPT !.calls = Append(@, Call("log", eid, "Unsupported profile", <<>>))],
              suggested_area |-> suggested_area]

\* Known, had setup_device not looked the eid up
KnownNever(g, eid) == FALSE

\* `device = self.parsed_devices.get(eid)`: is there a record of eid?
Known(g, eid) == eid \in DOMAIN g.parsed_devices

\* Online, had setup_device ignored the payload's online value
OnlineAlways(device_data) == TRUE

\* `online = device_data.get("online", True)`
Online(device_data) == Get(device_data, "online", TRUE)

\* UpdateStates, had setup_device left a record alone
UpdateStatesSkipped(device, online, attributes) == device

\* `device.set_available(online); device.update_state(attributes)`
UpdateStates(device, online, attributes) ==
    update_state(set_available(device, online), attributes)

\* one iteration of `for svc in svc_list` of setup_device
SetupSvc(g, device_data, svc, suggested_area) ==
    LET eid == svc.id
        attributes == Get(svc, "attributes", <<>>)
        online == Online(device_data)
        made == IF Known(g, eid)
                THEN [g |-> g, suggested_area |-> suggested_area]
                ELSE NewDevice(g, device_data, svc, suggested_area)
    IN  \* update states: of the record in the map, or of a record that was never added
        IF eid \in DOMAIN made.g.parsed_devices
        THEN [made EXCEPT !.g.parsed_devices[eid] = UpdateStates(@, online, attributes)]
        ELSE made

RECURSIVE SetupSvcs(_, _, _, _, _)
SetupSvcs(g, device_data, svc_list, i, suggested_area) ==
    IF i > Len(svc_list) THEN g
    ELSE LET r == SetupSvc(g, device_data, svc_list[i], suggested_area)
         IN  SetupSvcs(r.g, device_data, svc_list, i + 1, r.suggested_area)

\* setup_device(device_data, svc_list)
setup_device(g, device_data, svc_list) ==
    LET suggested_area == RoomName(device_data, UNDEFINED)
        logged == [g EXCEPT !.calls = Append(@, Call("log", device_data.id, "setup", <<>>))]
        own == IF device_data.id = unique_id
               THEN async_get_or_create(logged, unique_id, suggested_area)
               ELSE logged
    IN  SetupSvcs(own, device_data, svc_list, 1, suggested_area)

\* setup_device_group(device_group_data): the group is its own sole service
setup_device_group(g, device_group_data) ==
    setup_device(g, device_group_data, <<device_group_data>>)
(***************************************************************************)
(* Listener registry                                                       *)
(***************************************************************************)
\* the callbacks that may be registered, in the order the model lists a set of them
\* (update_listeners iterates a set: no caller can rely on the order among them)
ListenerOrder == <<"L1", "L2">>

\* update_listeners, had it invoked no callback
update_listeners_nobody(g, eid, data) == g

\* update_listeners(eid, data): listener(data) for every listener registered for eid
update_listeners(g, eid, data) ==
    IF eid \in DOMAIN listeners
    THEN LET ls == SelectSeq(ListenerOrder, LAMBDA l : l \in listeners[eid])
         IN  [g EXCEPT !.calls = @ \o [i \in 1..Len(ls) |-> Call("listener", eid, ls[i], data)]]
    ELSE g

(***************************************************************************)
(* Scene setup                                                             *)
(***************************************************************************)
\* create_entity(self, scene_id, TerncySwitchDescription(key="scene", name=name), init_states)
SceneEntity(name, init_states) ==
    [name |-> name, available |-> TRUE, state |-> MergeAttrs(EmptyDict, init_states, 1)]

\* NoActions, had setup_scene not looked at the actions
NoActionsNever(scene_data) == FALSE

\* `len(scene_data.get("actions", [])) == 0`
NoActions(scene_data) == Len(Get(scene_data, "actions", <<>>)) = 0

\* setup_scene(scene_data) from `scene_id = scene_data["id"]` on
SceneSetup(g, scene_data) ==
    LET scene_id == scene_data.id
        name == IF Get(scene_data, "name", "") # "" THEN scene_data.name ELSE scene_id
        online == Get(scene_data, "online", TRUE)
        init_states == << [attr |-> "on", value |-> scene_data.on] >>
        logged == [g EXCEPT !.calls = Append(@, Call("log", scene_id, "setup", <<>>))]
        made == IF scene_id \notin DOMAIN g.scenes
                THEN [ha_add_entity(logged, scene_id, "scene") EXCEPT
                          !.scenes = Put(@, scene_id, SceneEntity(name, init_states))]
                ELSE [logged EXCEPT !.scenes[scene_id].name = name]
    IN  IF NoActions(scene_data)
        THEN \* ignore scene without actions; if already exist, disable it
             IF scene_id \in DOMAIN g.scenes
             THEN [g EXCEPT !.scenes[scene_id] = set_available(@, FALSE)]
             ELSE g
        ELSE [made EXCEPT !.scenes[scene_id] =
                 update_state(set_available(@, online), init_states)]

\* setup_scene, had it not tested export_scenes
setup_scene_unguarded(g, scene_data) == SceneSetup(g, scene_data)

\* setup_scene(scene_data): `if not self.export_scenes: return`
setup_scene(g, scene_data) ==
    IF ~export_scenes THEN g ELSE SceneSetup(g, scene_data)

(***************************************************************************)
(* Reducers of the inbound message types                                   *)
(***************************************************************************)
Log(g, id, text) == [g EXCEPT !.calls = Append(@, Call("log", id, text, <<>>))]

\* _on_report, one payload
ReportOne(g, id_attributes) ==
    update_listeners(g, id_attributes.id, Get(id_attributes, "attributes", <<>>))

\* HasDevice, had the handler asked the host registry instead of the device map
HasDeviceInRegistry(g, eid) == eid \in g.registry

\* `if device := self.parsed_devices.get(eid)`
HasDevice(g, eid) == eid \in DOMAIN g.parsed_devices

\* `if device_entry := device_registry.async_get_device(identifiers={(DOMAIN, eid)})`
HasDeviceEntry(g, eid) == eid \in g.registry

\* the two channels of a button event: the local trigger, then the host bus event
DualChannel(g, eid, event_type, action, data) ==
    LET local == IF HasDevice(g, eid) THEN trigger_event(g, eid, event_type, data) ELSE g
    IN  IF HasDeviceEntry(local, eid) THEN async_fire(local, eid, action, data) ELSE local

\* `if 1 <= times <= 9: EVENT_ENTITY_BUTTON_EVENTS[times] else: ACTION_SINGLE_PRESS`
ButtonEvent(times) ==
    IF 1 <= times /\ times <= 9 THEN EVENT_ENTITY_BUTTON_EVENTS[times]
    ELSE ACTION_SINGLE_PRESS

\* _on_key_pressed, one payload: skipped when it has no "attributes"
KeyPressedOne(g, entity_data) ==
    IF "attributes" \notin DOMAIN entity_data THEN g
    ELSE LET times == entity_data.attributes[1].times
         IN  DualChannel(g, entity_data.id, ButtonEvent(times), ACTION_PRESSED,
                         ClickTimes(times))

\* _on_key_long_pressed, one payload
KeyLongPressedOne(g, item) ==
    DualChannel(g, item.id, ACTION_LONG_PRESS, ACTION_LONG_PRESS, <<>>)

\* _on_rotation, one payload
RotationOne(g, item) ==
    DualChannel(g, item.id, ACTION_ROTATION, ACTION_ROTATION, <<>>)

\* _on_entity_available, one payload
EntityAvailableOne(g, device_data) ==
    IF device_data.type = "device"
    THEN setup_device(g, device_data, Get(device_data, "services", <<>>))
    ELSE IF device_data.type = "token" THEN g
    ELSE Log(g, device_data.id, "entityAvailable: UNSUPPORTED TYPE")

\* the reserved prefix of scene ids: did.startswith("scene-")
IsSceneId(id) == id \in SceneIds

\* _on_entity_deleted, the branch of a device id: every entry whose did matches goes
RECURSIVE DeleteDevices(_, _)
DeleteDevices(g, will_delete) ==
    IF will_delete = {} THEN g
    ELSE LET eid == CHOOSE e \in will_delete : TRUE
             off == [g EXCEPT !.parsed_devices[eid] = set_available(@, FALSE),
                              !.calls = Append(@, Call("set_available", eid, "False", <<>>))]
             gone == IF eid \in off.registry THEN async_remove_device(off, eid) ELSE off
         IN  DeleteDevices([gone EXCEPT !.parsed_devices = Drop(@, eid)],
                           will_delete \ {eid})

\* WillDelete, had the handler not compared the owning device id
WillDeleteAll(g, did) == DOMAIN g.parsed_devices

\* will_delete = {eid: device for eid, device in parsed_devices.items() if did == device.did}
WillDelete(g, did) == {eid \in DOMAIN g.parsed_devices : g.parsed_devices[eid].did = did}

\* _on_entity_deleted, one payload
EntityDeletedOne(g, item) ==
    LET did == item.id
    IN  IF IsSceneId(did)
        THEN IF did \in DOMAIN g.scenes
             THEN \* scene.set_available(False); self.scenes.pop(did); er...async_remove(...)
                  [g EXCEPT !.scenes = Drop(@, did),
                            !.hass_entities = Drop(@, <<did, "scene">>),
                            !.calls = @ \o <<Call("set_available", did, "False", <<>>),
                                             Call("er.async_remove", did, "", <<>>)>>]
             ELSE g
        ELSE DeleteDevices(g, WillDelete(g, did))

\* _on_entity_updated, one payload
EntityUpdatedOne(g, item) ==
    IF item.type = "scene" THEN setup_scene(g, item)
    ELSE IF item.type = "user" THEN Log(g, item.id, "type user, ignore.")
    ELSE Log(g, item.id, "entityUpdated: UNSUPPORTED TYPE")

\* _on_entity_created, one payload
EntityCreatedOne(g, item) ==
    IF item.type = "scene" THEN setup_scene(g, item)
    ELSE IF item.type = "devicegroup" THEN setup_device_group(g, item)
    ELSE Log(g, item.id, "entityCreated: UNSUPPORTED TYPE")

\* OfflineOne, had the handler not compared the owning device id
OfflineEvery(g, device_data) ==
    [g EXCEPT !.parsed_devices = [eid \in DOMAIN @ |-> set_available(@[eid], FALSE)]]

\* _on_offline, one payload
OfflineOne(g, device_data) ==
    [g EXCEPT !.parsed_devices =
        [eid \in DOMAIN @ |-> IF @[eid].did = device_data.id
                              THEN set_available(@[eid], FALSE) ELSE @[eid]]]

\* the body of the loop that handles the payloads of kind `kind`
LoopBody(kind, g, item) ==
    CASE kind = "report" -> ReportOne(g, item)
      [] kind = "keyPressed" -> KeyPressedOne(g, item)
      [] kind = "keyLongPressed" -> KeyLongPressedOne(g, item)
      [] kind = "rotation" -> RotationOne(g, item)
      [] kind = "entityAvailable" -> EntityAvailableOne(g, item)
      [] kind = "entityDeleted" -> EntityDeletedOne(g, item)
      [] kind = "entityUpdated" -> EntityUpdatedOne(g, item)
      [] kind = "entityCreated" -> EntityCreatedOne(g, item)
      [] kind = "offline" -> OfflineOne(g, item)
      [] kind = "refresh_device" ->
            setup_device(g, item, Get(item, "services", <<>>))
      [] kind = "refresh_devicegroup" -> setup_device_group(g, item)
      [] kind = "refresh_scene" -> setup_scene(g, item)

\* `for item in items:` from the i-th item on
RECURSIVE Fold(_, _, _, _)
Fold(kind, g, items, i) ==
    IF i > Len(items) THEN g ELSE Fold(kind, LoopBody(kind, g, items[i]), items, i + 1)

\* _on_report, _on_key_pressed, ..., _on_offline: the debug line, then the loop over
\* msg_data
on_report(g, msg_data) == Fold("report", Log(g, "", "EVENT: report"), msg_data, 1)

on_key_pressed(g, msg_data) ==
    Fold("keyPressed", Log(g, "", "EVENT: keyPressed"), msg_data, 1)

on_key_long_pressed(g, msg_data) ==
    Fold("keyLongPressed", Log(g, "", "EVENT: keyLongPressed"), msg_data, 1)

on_rotation(g, msg_data) ==
    Fold("rotation", Log(g, "", "EVENT: rotation"), msg_data, 1)

on_entity_available(g, msg_data) ==
    Fold("entityAvailable", Log(g, "", "EVENT: entityAvailable"), msg_data, 1)

on_entity_deleted(g, msg_data) ==
    Fold("entityDeleted", Log(g, "", "EVENT: entityDeleted"), msg_data, 1)

on_entity_updated(g, msg_data) ==
    Fold("entityUpdated", Log(g, "", "EVENT: entityUpdated"), msg_data, 1)

on_entity_created(g, msg_data) ==
    Fold("entityCreated", Log(g, "", "EVENT: entityCreated"), msg_data, 1)

on_offline(g, msg_data) == Fold("offline", Log(g, "", "EVENT: offline"), msg_data, 1)

\* Unsupported, had the dispatcher handed a type it does not know to _on_report
UnsupportedAsReport(g, msg) == on_report(g, msg.entities)

\* the `else:` of the dispatch: a warning, nothing more
Unsupported(g, msg) == Log(g, msg.type, "unsupported event type")

\* terncy_event_handler, the EventMessage branch: dispatch on msg["type"]
HandleMessage(g, msg) ==
    IF "entities" \notin DOMAIN msg
    THEN Log(g, "", "'entities' not found in message!")
    ELSE IF "type" \notin DOMAIN msg
    THEN \* msg.get("type") is None
         Log(g, "", "event type is None, ignore.")
    ELSE LET msg_data == msg.entities
             event_type == msg.type
         IN  CASE event_type = "report" -> on_report(g, msg_data)
               [] event_type = "keyPressed" -> on_key_pressed(g, msg_data)
               [] event_type = "keyLongPressed" -> on_key_long_pressed(g, msg_data)
               [] event_type = "rotation" -> on_rotation(g, msg_data)
               [] event_type = "entityAvailable" -> on_entity_available(g, msg_data)
               [] event_type = "entityDeleted" -> on_entity_deleted(g, msg_data)
               [] event_type = "entityCreated" -> on_entity_created(g, msg_data)
               [] event_type = "entityUpdated" -> on_entity_updated(g, msg_data)
               [] event_type = "offline" -> on_offline(g, msg_data)
               [] OTHER -> Unsupported(g, msg)

(***************************************************************************)
(* The event loop: tasks in flight                                         *)
(***************************************************************************)
TaskKinds == {"stop", "connect", "reconnect", "reconnect_sleep", "refresh_room",
              "refresh_device", "refresh_devicegroup", "refresh_scene"}

NoTasks == [k \in TaskKinds |-> 0]

\* room for one more coroutine waiting at suspension point k
CanSpawn(k) == tasks[k] < MaxTasks

\* room for one more async_refresh_devices coroutine
CanRefresh ==
    tasks["refresh_room"] + tasks["refresh_device"] + tasks["refresh_devicegroup"]
        + tasks["refresh_scene"] < MaxRefresh

Spawn(t, k) == [t EXCEPT ![k] = @ + 1]

Finish(t, k) == [t EXCEPT ![k] = @ - 1]

\* write back what a reducer made of the gateway's collections
Commit(g) ==
    /\ parsed_devices' = g.parsed_devices
    /\ scenes' = g.scenes
    /\ registry' = g.registry
    /\ hass_entities' = g.hass_entities
    /\ calls' = g.calls

Devices == <<parsed_devices, scenes, registry, hass_entities>>

Config == <<export_device_groups, export_scenes>>

Session == <<started, stopped, connected, closing, tasks>>

(***************************************************************************)
(* Connection lifecycle                                                    *)
(***************************************************************************)
\* start(): arm the discovery listeners; connect at once when the hub's address is known
Start(hub_known) ==
    /\ ~started
    /\ started' = TRUE
    /\ stopped' = FALSE
    /\ IF hub_known /\ ~connected
       THEN /\ CanSpawn("connect")
            /\ tasks' = Spawn(tasks, "connect")
            /\ calls' = <<Call("log", "", "Start connection", <<>>),
                          Call("api.start", "", "", <<>>)>>
       ELSE /\ tasks' = tasks
            /\ calls' = <<>>
    /\ UNCHANGED <<connected, closing, listeners, room_data, Devices, Config>>

\* InvalidAddress, had on_terncy_svc_add not tested the address
InvalidAddressNever(ip) == FALSE

\* `if ip == "": ... return` of on_terncy_svc_add
InvalidAddress(ip) == ip = ""

\* on_terncy_svc_add(event): the hub was found on the network
SvcAdd(dev_id, ip) ==
    /\ started
    /\ IF dev_id # unique_id
       THEN /\ calls' = <<>>
            /\ UNCHANGED <<stopped, tasks>>
       ELSE IF InvalidAddress(ip)
       THEN /\ calls' = <<Call("log", dev_id, "Found terncy service", <<>>),
                          Call("log", dev_id, "ip address is not valid", <<>>)>>
            /\ UNCHANGED <<stopped, tasks>>
       ELSE IF ~connected
       THEN /\ CanSpawn("connect")
            /\ stopped' = FALSE
            /\ tasks' = Spawn(tasks, "connect")
            /\ calls' = <<Call("log", dev_id, "Found terncy service", <<>>),
                          Call("log", dev_id, "Start connecting", <<>>),
                          Call("api.start", "", "", <<>>)>>
       ELSE /\ calls' = <<Call("log", dev_id, "Found terncy service", <<>>)>>
            /\ UNCHANGED <<stopped, tasks>>
    /\ UNCHANGED <<started, connected, closing, listeners, room_data, Devices, Config>>

\* on_terncy_svc_remove(event): the hub left the network; stop() runs as a task
SvcRemove(dev_id) ==
    /\ started
    /\ IF dev_id # unique_id
       THEN /\ calls' = <<>>
            /\ tasks' = tasks
       ELSE /\ CanSpawn("stop")
            /\ tasks' = Spawn(tasks, "stop")
            /\ calls' = <<Call("log", dev_id, "on_terncy_svc_remove", <<>>)>>
    /\ UNCHANGED <<started, stopped, connected, closing, listeners, room_data,
                   Devices, Config>>

\* stop(): set the flag, then api.stop() closes the session
StopBody(t) ==
    /\ stopped' = TRUE
    /\ connected' = FALSE
    /\ closing' = (closing \/ connected)
    /\ tasks' = t
    /\ calls' = <<Call("api.stop", "", "", <<>>)>>
    /\ UNCHANGED <<started, listeners, room_data, Devices, Config>>

\* stop() called by the host (on_hass_stop, unload of the config entry)
Stop ==
    /\ started
    /\ StopBody(tasks)

\* stop() run as the task that on_terncy_svc_remove created
StopTask ==
    /\ tasks["stop"] > 0
    /\ StopBody(Finish(tasks, "stop"))

\* reconnect(), up to `await asyncio.sleep(2)`
ReconnectBegin ==
    /\ tasks["reconnect"] > 0
    /\ IF stopped
       THEN /\ tasks' = Finish(tasks, "reconnect")
            /\ calls' = <<Call("log", "", "service stopped, don't retry", <<>>)>>
       ELSE /\ CanSpawn("reconnect_sleep")
            /\ tasks' = Spawn(Finish(tasks, "reconnect"), "reconnect_sleep")
            /\ calls' = <<>>
    /\ UNCHANGED <<started, stopped, connected, closing, listeners, room_data,
                   Devices, Config>>

\* reconnect(), from the end of the sleep on
ReconnectWake ==
    /\ tasks["reconnect_sleep"] > 0
    /\ IF connected
       THEN /\ tasks' = Finish(tasks, "reconnect_sleep")
            /\ calls' = <<Call("log", "", "service is still connected while retry", <<>>)>>
       ELSE /\ CanSpawn("connect")
            /\ tasks' = Spawn(Finish(tasks, "reconnect_sleep"), "connect")
            /\ calls' = <<Call("log", "", "Start reconnecting...", <<>>),
                          Call("api.start", "", "", <<>>)>>
    /\ UNCHANGED <<started, stopped, connected, closing, listeners, room_data,
                   Devices, Config>>

(***************************************************************************)
(* terncy_event_handler: the session events                                *)
(***************************************************************************)
\* Connected: a connect attempt got through; the refresh runs as a task
EventConnected ==
    /\ started
    /\ tasks["connect"] > 0
    /\ ~connected
    /\ CanRefresh
    /\ connected' = TRUE
    /\ tasks' = Spawn(Finish(tasks, "connect"), "refresh_room")
    /\ calls' = <<Call("log", unique_id, "Connected", <<>>)>>
    /\ UNCHANGED <<started, stopped, closing, listeners, room_data, Devices, Config>>

\* what the session client went through when it reports Disconnected: a live session
\* dropped, a session closed by api.stop() ended, or a connect attempt failed
SessionEnds(why) ==
    CASE why = "dropped" -> connected
      [] why = "closed" -> closing
      [] why = "failed" -> tasks["connect"] > 0

\* AllUnavailable, had the handler cleared the device map
AllUnavailableForgets(devices) == EmptyDict

\* `for device in self.parsed_devices.values(): device.set_available(False)`
AllUnavailable(devices) ==
    [eid \in DOMAIN devices |-> set_available(devices[eid], FALSE)]

\* ArmReconnect, had the handler not tested _stopped
ArmReconnectAlways(t) == Spawn(t, "reconnect")

\* `if not self._stopped: self.async_create_background_task(self.reconnect(), "Reconnect")`
ArmReconnect(t) == IF stopped THEN t ELSE Spawn(t, "reconnect")

\* Disconnected: every device goes unavailable; unless stopped, reconnect() is scheduled
EventDisconnected(why) ==
    /\ started
    /\ SessionEnds(why)
    /\ stopped \/ CanSpawn("reconnect")
    /\ connected' = (connected /\ why # "dropped")
    /\ closing' = (closing /\ why # "closed")
    /\ tasks' = ArmReconnect(IF why = "failed" THEN Finish(tasks, "connect") ELSE tasks)
    /\ parsed_devices' = AllUnavailable(parsed_devices)
    /\ calls' = <<Call("log", unique_id, "Disconnected", <<>>)>>
    /\ UNCHANGED <<started, stopped, listeners, room_data, scenes, registry,
                   hass_entities, Config>>

\* an EventMessage on the live session
EventMessage(msg) ==
    /\ started
    /\ connected
    /\ Commit(HandleMessage(G, msg))
    /\ UNCHANGED <<Session, listeners, room_data, Config>>
(***************************************************************************)
(* async_refresh_devices: one action per await of _fetch_data               *)
(***************************************************************************)
\* ..const.DEFAULT_ROOMS for the configured language: room id -> default name
default_rooms == [r \in {"r1"} |-> "Living room"]

\* api.get_entities(ent_type, True) raised instead of answering
Raised(response) == "raise" \in DOMAIN response

\* _fetch_data(ent_type): the entities of the response, [] when it has no "rsp"
FetchData(response) == Get(Get(response, "rsp", EmptyDict), "entities", <<>>)

\* RoomTable, had the refresh not known the locale defaults
RoomTableHubNames(rooms) ==
    [id \in {rooms[i].id : i \in DOMAIN rooms} |->
        (CHOOSE room \in Range(rooms) : room.id = id).name]

\* the room table built from a fetched room list
RoomTable(rooms) ==
    [id \in {rooms[i].id : i \in DOMAIN rooms} |->
        LET room == rooms[CHOOSE i \in DOMAIN rooms :
                             rooms[i].id = id /\ \A j \in DOMAIN rooms : rooms[j].id = id => j <= i]
        IN  IF room.name # "" THEN room.name ELSE Get(default_rooms, room.id, "")]

\* AfterRoomFailure, had the exception ended the refresh
AfterRoomFailureAborts(t) == Finish(t, "refresh_room")

\* `except Exception as e: self.logger.warning(...)`: on to the device fetch
AfterRoomFailure(t) == Spawn(Finish(t, "refresh_room"), "refresh_device")

\* the room fetch: a failure is caught and the refresh goes on
RefreshRooms(response) ==
    /\ tasks["refresh_room"] > 0
    /\ tasks' = IF Raised(response) THEN AfterRoomFailure(tasks)
                ELSE Spawn(Finish(tasks, "refresh_room"), "refresh_device")
    /\ IF Raised(response)
       THEN /\ room_data' = room_data
            /\ calls' = <<Call("log", "", "fetch room error", <<>>)>>
       ELSE /\ room_data' = RoomTable(FetchData(response))
            /\ calls' = IF "rsp" \in DOMAIN response THEN <<>>
                        ELSE <<Call("log", "room", "fetch error", <<>>)>>
    /\ UNCHANGED <<started, stopped, connected, closing, listeners, Devices, Config>>

\* the fetch of the device or device group list: a failure ends the task; the entities
\* of the response are set up one by one when `enabled`
Fetched(kind, response, next, enabled) ==
    /\ tasks[kind] > 0
    /\ IF Raised(response)
       THEN /\ tasks' = Finish(tasks, kind)
            /\ calls' = <<>>
            /\ UNCHANGED Devices
       ELSE /\ tasks' = Spawn(Finish(tasks, kind), next)
            /\ LET g == IF "rsp" \in DOMAIN response THEN G
                        ELSE Log(G, kind, "fetch error")
               IN  Commit(IF enabled THEN Fold(kind, g, FetchData(response), 1) ELSE g)
    /\ UNCHANGED <<started, stopped, connected, closing, listeners, room_data, Config>>

\* `for device_data in devices: self.setup_device(device_data, device_data.get("services", []))`
RefreshDevices(response) ==
    Fetched("refresh_device", response, "refresh_devicegroup", TRUE)

\* `if self.export_device_groups: for ...: self.setup_device_group(device_group_data)`
RefreshDeviceGroups(response) ==
    Fetched("refresh_devicegroup", response, "refresh_scene", export_device_groups)

\* `if self.export_scenes:` the shared scenes device first, then every scene
SetupFetchedScenes(g, scene_list) ==
    Fold("refresh_scene", async_get_or_create(g, scenes_device, UNDEFINED), scene_list, 1)

RefreshScenes(response) ==
    /\ tasks["refresh_scene"] > 0
    /\ tasks' = Finish(tasks, "refresh_scene")
    /\ IF Raised(response)
       THEN /\ calls' = <<>>
            /\ UNCHANGED Devices
       ELSE LET g == IF "rsp" \in DOMAIN response THEN G
                     ELSE Log(G, "refresh_scene", "fetch error")
            IN  Commit(IF export_scenes THEN SetupFetchedScenes(g, FetchData(response))
                       ELSE g)
    /\ UNCHANGED <<started, stopped, connected, closing, listeners, room_data, Config>>

(***************************************************************************)
(* Listener registry and commands                                          *)
(***************************************************************************)
\* `self._listeners.setdefault(eid, set()).add(listener)`
add_listener(ls, eid, listener) == Put(ls, eid, Get(ls, eid, {}) \cup {listener})

\* remove_listener, had it emptied the eid's set
remove_listener_all(ls, eid, listener) ==
    IF eid \in DOMAIN ls THEN [ls EXCEPT ![eid] = {}] ELSE ls

\* `if eid in self._listeners: self._listeners[eid].discard(listener)`
remove_listener(ls, eid, listener) ==
    IF eid \in DOMAIN ls THEN [ls EXCEPT ![eid] = @ \ {listener}] ELSE ls

\* add_listener(eid, listener)
AddListener(eid, listener) ==
    /\ listeners' = add_listener(listeners, eid, listener)
    /\ calls' = <<>>
    /\ UNCHANGED <<Session, room_data, Devices, Config>>

\* the handle that add_listener(eid, listener) returned is invoked: remove_listener();
\* a handle exists once add_listener has run for the eid, and outlives its first use
RemoveListener(eid, listener) ==
    /\ eid \in DOMAIN listeners
    /\ listeners' = remove_listener(listeners, eid, listener)
    /\ calls' = <<>>
    /\ UNCHANGED <<Session, room_data, Devices, Config>>

\* Written, had the listeners been updated whether or not the write got through
WrittenRegardless(api_call, eid, data, ok) ==
    update_listeners([G EXCEPT !.calls = <<Call(api_call, eid, "", data)>>], eid, data)

\* `await self.api.set_attribute(...)` / set_attributes, then update_listeners(eid, data)
Written(api_call, eid, data, ok) ==
    LET sent == [G EXCEPT !.calls = <<Call(api_call, eid, "", data)>>]
    IN  IF ok THEN update_listeners(sent, eid, data)
        ELSE [sent EXCEPT !.calls = Append(@, Call("raise", eid, "", <<>>))]

\* set_attribute(eid, attr, value): ok is whether the session client's write got through
SetAttribute(eid, attr, value, ok) ==
    /\ started
    /\ Commit(Written("api.set_attribute", eid, <<[attr |-> attr, value |-> value]>>, ok))
    /\ UNCHANGED <<Session, listeners, room_data, Config>>

\* set_attributes(eid, attrs)
SetAttributes(eid, attrs, ok) ==
    /\ started
    /\ Commit(Written("api.set_attributes", eid, attrs, ok))
    /\ UNCHANGED <<Session, listeners, room_data, Config>>
(***************************************************************************)
(* What the hub and the host can send: the inputs of the actions           *)
(***************************************************************************)
On(v) == [attr |-> "on", value |-> v]

Brightness(v) == [attr |-> "brightness", value |-> v]

Svc(eid, profile, attributes) == [id |-> eid, profile |-> profile, attributes |-> attributes]

\* device d1 in room r1: a light service, and a service of a profile PROFILES lacks
D1(svc_list) == [id |-> "d1", type |-> "device", room |-> "r1", services |-> svc_list]

\* device d2: one sensor service
D2 == [id |-> "d2", type |-> "device",
       services |-> << Svc("d2-01", 2, <<On(1)>>) >>]

\* the hub's own record: no services
Hub == [id |-> unique_id, type |-> "device", room |-> "r1", services |-> <<>>]

Offline(d) == d @@ [online |-> FALSE]

Light(attributes) == D1(<< Svc("d1-01", 1, attributes) >>)

\* every device payload of the model
DevicePayloads ==
    {Light(<<>>), Light(<<On(1)>>), Light(<<On(0), Brightness(5)>>),
     Offline(Light(<<On(0), Brightness(5)>>)),
     D1(<< Svc("d1-02", 7, <<On(1)>>), Svc("d1-01", 1, <<On(1)>>) >>),
     D2 @@ [online |-> TRUE], Offline(D2), Hub}

\* the payloads that messages of several entities are made of
CorePayloads == {Light(<<On(1)>>), Offline(Light(<<On(0), Brightness(5)>>))}

\* a device group: its own sole service
Group(attributes) ==
    [id |-> "g1", type |-> "devicegroup", profile |-> 1, attributes |-> attributes]

GroupPayloads == {Group(<<On(1)>>), Offline(Group(<<On(0)>>))}

Scene(name, actions, on) ==
    [id |-> "scene-1", type |-> "scene", name |-> name, actions |-> actions, on |-> on]

ScenePayloads ==
    {Scene("Movie", <<"a1">>, 1), Scene("", <<"a1">>, 0), Scene("Movie", <<>>, 0),
     Offline(Scene("Night", <<"a1">>, 1))}

Message(type, entities) == [type |-> type, entities |-> entities]

Ok(entities) == [rsp |-> [entities |-> entities]]

\* a response without "rsp", and a fetch that raised
FetchFailures == {[error |-> "timeout"], [raise |-> TRUE]}

RoomResponses ==
    {Ok(<< [id |-> "r1", name |-> "Kitchen"], [id |-> "r2", name |-> ""] >>),
     Ok(<< [id |-> "r1", name |-> ""] >>)} \cup FetchFailures
(***************************************************************************)
(* Specifications                                                          *)
(***************************************************************************)
\* the gateway as __init__ leaves it, under every configuration
Init ==
    /\ started = FALSE
    /\ stopped = FALSE
    /\ connected = FALSE
    /\ closing = FALSE
    /\ tasks = NoTasks
    /\ parsed_devices = EmptyDict
    /\ listeners = EmptyDict
    /\ room_data = EmptyDict
    /\ scenes = EmptyDict
    /\ registry = {}
    /\ hass_entities = EmptyDict
    /\ export_device_groups \in BOOLEAN
    /\ export_scenes \in BOOLEAN
    /\ calls = <<>>

\* the configuration of an entry without options: device groups exported, scenes not
InitDefault == Init /\ export_device_groups /\ ~export_scenes

HubIds == {unique_id, "box-other"}

Addresses == {"", "10.0.0.2"}

EndReasons == {"dropped", "closed", "failed"}

\* the connection lifecycle
Lifecycle ==
    \/ \E hub_known \in BOOLEAN : Start(hub_known)
    \/ \E dev_id \in HubIds, ip \in Addresses : SvcAdd(dev_id, ip)
    \/ \E dev_id \in HubIds : SvcRemove(dev_id)
    \/ Stop
    \/ StopTask
    \/ ReconnectBegin
    \/ ReconnectWake
    \/ EventConnected
    \/ \E why \in EndReasons : EventDisconnected(why)

\* a refresh that finds the same small topology every time
SmallRefresh ==
    \/ \E response \in {Ok(<<>>)} : RefreshRooms(response)
    \/ \E response \in {Ok(<< Light(<<On(1)>>), D2 >>), [raise |-> TRUE]} :
           RefreshDevices(response)
    \/ \E response \in {Ok(<<>>)} : RefreshDeviceGroups(response)
    \/ \E response \in {Ok(<<>>)} : RefreshScenes(response)

\* an inbound message about that topology
SmallMessages == {Message("offline", << [id |-> "d2"] >>)}

Next ==
    \/ Lifecycle
    \/ SmallRefresh
    \/ \E msg \in SmallMessages : EventMessage(msg)

\* the connection supervisor under every interleaving, with the default configuration
Spec == InitDefault /\ [][Next]_vars
(***************************************************************************)
(* The device topology under disconnects, refreshes and inbound messages   *)
(***************************************************************************)
\* entityAvailable messages: every device payload alone, lists of the core payloads,
\* a token, and an entity of a type the handler does not support
AvailableMessages ==
    {Message("entityAvailable", entities) :
        entities \in {<<p>> : p \in DevicePayloads}
                     \cup (SeqsUpTo(CorePayloads, MaxMsgLen) \ {<<>>})
                     \cup {<< [id |-> "t1", type |-> "token"] >>,
                           << [id |-> "u1", type |-> "user"] >>}}

DeviceIdLists == {<< [id |-> "d1"] >>, << [id |-> "d2"] >>, << [id |-> "d1"], [id |-> "d2"] >>}

ReportMessages ==
    {Message("report", << [id |-> "d1-01", attributes |-> <<On(0)>>] >>),
     Message("report", << [id |-> "d2-01", attributes |-> <<On(1)>>],
                          [id |-> "d1-01", attributes |-> <<On(1)>>] >>)}

TopoMessages ==
    AvailableMessages \cup ReportMessages
    \cup {Message(type, entities) : type \in {"offline", "entityDeleted"},
                                    entities \in DeviceIdLists}

DeviceResponses ==
    {Ok(<< Hub, Light(<<On(1)>>), D2 >>), Ok(<< Offline(Light(<<On(0), Brightness(5)>>)) >>)}
    \cup FetchFailures

\* one session that drops and is reconnected, never stopped
Reconnecting ==
    \/ Start(TRUE)
    \/ EventConnected
    \/ EventDisconnected("dropped")
    \/ ReconnectBegin
    \/ ReconnectWake

TopoRefresh ==
    \/ \E response \in {Ok(<< [id |-> "r1", name |-> "Kitchen"] >>), [raise |-> TRUE]} :
           RefreshRooms(response)
    \/ \E response \in DeviceResponses : RefreshDevices(response)
    \/ \E response \in {Ok(<<>>)} : RefreshDeviceGroups(response)
    \/ \E response \in {Ok(<<>>)} : RefreshScenes(response)

NextTopo ==
    \/ Reconnecting
    \/ TopoRefresh
    \/ \E msg \in TopoMessages : EventMessage(msg)

SpecTopo == InitDefault /\ [][NextTopo]_vars

(***************************************************************************)
(* Device groups and scenes under every configuration                      *)
(***************************************************************************)
InitExport == Init

ExportMessages ==
    {Message("entityCreated", <<p>>) : p \in GroupPayloads \cup ScenePayloads}
    \cup {Message("entityUpdated", <<p>>) : p \in ScenePayloads}
    \cup {Message("entityCreated", << [id |-> "u1", type |-> "user"] >>),
          Message("entityUpdated", << [id |-> "u1", type |-> "user"] >>),
          Message("entityUpdated", << Group(<<On(1)>>) >>),
          Message("entityCreated", << Group(<<On(1)>>), Scene("Movie", <<"a1">>, 1) >>),
          Message("entityDeleted", << [id |-> "g1"] >>),
          Message("entityDeleted", << [id |-> "scene-1"] >>)}

ExportRefresh ==
    \/ \E response \in {Ok(<<>>)} : RefreshRooms(response)
    \/ \E response \in {Ok(<<>>), [raise |-> TRUE]} : RefreshDevices(response)
    \/ \E response \in {Ok(<<p>>) : p \in GroupPayloads} \cup FetchFailures :
           RefreshDeviceGroups(response)
    \/ \E response \in {Ok(<<p>>) : p \in ScenePayloads} \cup FetchFailures :
           RefreshScenes(response)

NextExport ==
    \/ Reconnecting
    \/ ExportRefresh
    \/ \E msg \in ExportMessages : EventMessage(msg)

SpecExport == InitExport /\ [][NextExport]_vars

(***************************************************************************)
(* Commands and listeners                                                  *)
(***************************************************************************)
Eids == {"d1-01", "d2-01"}

Callbacks == Range(ListenerOrder)

AttrLists == {<<On(1)>>, <<On(0), Brightness(5)>>}

Commands ==
    \/ \E eid \in Eids, listener \in Callbacks : AddListener(eid, listener)
    \/ \E eid \in Eids, listener \in Callbacks : RemoveListener(eid, listener)
    \/ \E eid \in Eids, value \in {0, 1}, ok \in BOOLEAN : SetAttribute(eid, "on", value, ok)
    \/ \E eid \in Eids, attrs \in AttrLists, ok \in BOOLEAN : SetAttributes(eid, attrs, ok)

\* the light is reported, and deleted
LightComesAndGoes ==
    {Message("entityAvailable", << Light(<<On(1)>>) >>),
     Message("entityDeleted", << [id |-> "d1"] >>)}

NextCmd ==
    \/ Start(TRUE)
    \/ EventConnected
    \/ Commands
    \/ \E msg \in ReportMessages \cup LightComesAndGoes : EventMessage(msg)

SpecCmd == InitDefault /\ [][NextCmd]_vars

(***************************************************************************)
(* The inbound message types on a fixed topology, with everything exported *)
(***************************************************************************)
InitEvents == Init /\ export_device_groups /\ export_scenes

\* device d1 with two services of supported profiles
TwoLights == D1(<< Svc("d1-01", 1, <<On(1)>>), Svc("d1-02", 2, <<>>) >>)

Pressed(eid, times) == [id |-> eid, attributes |-> << [times |-> times] >>]

\* the press counts of the model: the ends of 1..9, one inside, and two outside
PressCounts == {0, 1, 3, 9, 15}

\* the eids a button event may name: two services in the device map, the hub (which
\* the host registry knows and the device map does not), and one nobody knows
ButtonEids == {"d1-01", "d2-01", unique_id, "d9-01"}

KeyPressedMessages ==
    {Message("keyPressed", <<Pressed(eid, times)>>) : eid \in ButtonEids, times \in PressCounts}
    \cup {Message("keyPressed", << Pressed("d1-01", 3), [id |-> "d2-01"], Pressed("d2-01", 1) >>)}

ButtonMessages ==
    {Message(type, << [id |-> eid] >>) : type \in {"keyLongPressed", "rotation"},
                                          eid \in ButtonEids}

\* messages the dispatcher has no handler for: no "entities", no type, an empty type,
\* a type outside the nine it knows
DroppedMessages ==
    {[type |-> "report"], [entities |-> << [id |-> "d1-01"] >>],
     Message("", << [id |-> "d1-01"] >>), Message("heartbeat", << [id |-> "d1-01"] >>)}

DeletedMessages ==
    {Message("entityDeleted", entities) :
        entities \in DeviceIdLists \cup {<< [id |-> "scene-1"] >>, << [id |-> "d9"] >>,
                                         << [id |-> "scene-1"], [id |-> "d1"] >>}}

OfflineMessages ==
    {Message("offline", entities) : entities \in DeviceIdLists \cup {<< [id |-> "d9"] >>}}

EventsMessages ==
    KeyPressedMessages \cup ButtonMessages \cup DroppedMessages \cup DeletedMessages
    \cup OfflineMessages
    \cup {Message("entityAvailable", <<TwoLights>>),
          Message("entityAvailable", <<D2>>),
          Message("entityCreated", << Scene("Movie", <<"a1">>, 1) >>),
          Message("entityUpdated", << [id |-> "u1", type |-> "user"] >>),
          Message("report", << [id |-> "d1-01", attributes |-> <<On(0)>>] >>)}

EventsRefresh ==
    \/ \E response \in {Ok(<<>>)} : RefreshRooms(response)
    \/ \E response \in {Ok(<< Hub, TwoLights >>)} : RefreshDevices(response)
    \/ \E response \in {Ok(<<>>)} : RefreshDeviceGroups(response)
    \/ \E response \in {Ok(<<>>)} : RefreshScenes(response)

NextEvents ==
    \/ Start(TRUE)
    \/ EventConnected
    \/ EventsRefresh
    \/ \E eid \in {"d1-01"}, listener \in {"L1"} : AddListener(eid, listener)
    \/ \E msg \in EventsMessages : EventMessage(msg)

SpecEvents == InitEvents /\ [][NextEvents]_vars

(***************************************************************************)
(* Device setup under every room table                                     *)
(***************************************************************************)
\* device d3 in a room no table has; its service names room r2
D3 == [id |-> "d3", type |-> "device", room |-> "r9",
       services |-> << Svc("d3-01", 2, <<On(1)>>) @@ [room |-> "r2"] >>]

\* device d4 without room; its service names room r1
D4 == [id |-> "d4", type |-> "device",
       services |-> << Svc("d4-01", 2, <<>>) @@ [room |-> "r1"] >>]

\* the light with too few attributes, as switch, as dimmer that is offline, beside a
\* service of a profile PROFILES lacks, and the devices that name rooms
SetupPayloads ==
    {Light(<<>>), Light(<<On(1)>>), Offline(Light(<<On(0), Brightness(5)>>)),
     D1(<< Svc("d1-02", 7, <<On(1)>>), Svc("d1-01", 1, <<On(1)>>) >>), D3, D4}

SetupMessages == {Message("entityAvailable", <<p>>) : p \in SetupPayloads}

SetupRefresh ==
    \/ \E response \in RoomResponses : RefreshRooms(response)
    \/ \E response \in {Ok(<< Hub, D3 >>), [raise |-> TRUE]} : RefreshDevices(response)
    \/ \E response \in {Ok(<<>>)} : RefreshDeviceGroups(response)
    \/ \E response \in {Ok(<<>>)} : RefreshScenes(response)

NextSetup ==
    \/ Reconnecting
    \/ SetupRefresh
    \/ \E msg \in SetupMessages : EventMessage(msg)

SpecSetup == InitDefault /\ [][NextSetup]_vars

(***************************************************************************)
(* Devices that come, go and are listed by the wrong owner                 *)
(***************************************************************************)
\* device d5, which lists the first service of d1 as its own, with another profile
D5 == [id |-> "d5", type |-> "device", services |-> << Svc("d1-01", 2, <<On(0)>>) >>]

OwnerDeletions ==
    {Message("entityDeleted", << [id |-> did] >>) : did \in {"d1", "d2", "d5", "d1-01"}}
    \cup {Message("entityDeleted", << [id |-> "d5"], [id |-> "d2"] >>)}

OwnerMessages ==
    {Message("entityAvailable", <<p>>) :
        p \in {TwoLights, D5, D2, Offline(D2), Light(<<On(0), Brightness(5)>>), Light(<<>>)}}
    \cup OwnerDeletions
    \cup {Message("offline", << [id |-> "d5"] >>),
          Message("entityCreated", << Group(<<On(1)>>) >>)}

OwnerRefresh ==
    \/ \E response \in {Ok(<<>>)} : RefreshRooms(response)
    \/ \E response \in {Ok(<< Hub, TwoLights >>), Ok(<< D5 >>)} : RefreshDevices(response)
    \/ \E response \in {Ok(<< Group(<<On(0)>>) >>)} : RefreshDeviceGroups(response)
    \/ \E response \in {Ok(<<>>)} : RefreshScenes(response)

NextOwner ==
    \/ Reconnecting
    \/ OwnerRefresh
    \/ \E msg \in OwnerMessages : EventMessage(msg)

SpecOwner == InitDefault /\ [][NextOwner]_vars

(***************************************************************************)
(* Claims about the connection supervisor (under Spec)                     *)
(***************************************************************************)
Disconnected == \E why \in EndReasons : EventDisconnected(why)

\* C1: when the event handler receives Disconnected, every device of the device map is
\* marked unavailable (none is added or dropped), and exactly one reconnect() is
\* scheduled when the stopped flag is false, none when it is true.
C1_DisconnectedMarksAllAndArmsOnce ==
    [][Disconnected =>
          /\ DOMAIN parsed_devices' = DOMAIN parsed_devices
          /\ \A eid \in DOMAIN parsed_devices : ~parsed_devices'[eid].available
          /\ tasks'["reconnect"] = tasks["reconnect"] + (IF stopped THEN 0 ELSE 1)]_vars

\* a Disconnected event was handled while running, with two available devices in the map
C1_Witness ==
    /\ calls = <<Call("log", unique_id, "Disconnected", <<>>)>>
    /\ ~stopped
    /\ tasks["reconnect"] = 1
    /\ Cardinality(DOMAIN parsed_devices) = 2
    /\ \A eid \in DOMAIN parsed_devices : ~parsed_devices[eid].available

\* C2: a reconnect() that a Disconnected event scheduled and that is overtaken by stop()
\* during its delay issues no connect call: when a sleeping reconnect() resumes while
\* the stopped flag is set, no api.start() follows.
C2_StopDuringDelaySuppressesConnect ==
    [][(stopped /\ tasks'["reconnect_sleep"] < tasks["reconnect_sleep"])
          => tasks'["connect"] = tasks["connect"]]_vars

\* an event delivered to the gateway: discovery, Disconnected, or an inbound message
SvcAdded == \E dev_id \in HubIds, ip \in Addresses : SvcAdd(dev_id, ip)

SvcRemoved == \E dev_id \in HubIds : SvcRemove(dev_id)

Inbound == \E msg \in SmallMessages : EventMessage(msg)

\* the step neither clears the stopped flag nor issues or schedules a connect attempt
StaysStopped ==
    /\ stopped'
    /\ tasks'["connect"] <= tasks["connect"]
    /\ tasks'["reconnect"] <= tasks["reconnect"]
    /\ tasks'["reconnect_sleep"] <= tasks["reconnect_sleep"]

\* C3 as claimed: once stop() has set the flag, no event delivered to the gateway clears
\* it or issues a connect attempt.
C3_StoppedIsTerminal ==
    [][(stopped /\ (Disconnected \/ SvcAdded \/ SvcRemoved \/ Inbound)) => StaysStopped]_vars

\* C3 as amended: once stop() has set the flag, no Disconnected, service-stopped or
\* inbound-message event clears it or issues a connect attempt, and neither does a
\* service-found event of another hub, with an empty address, or while the session is
\* connected; a service-found event of this hub with an address while the session is
\* not connected clears the flag and starts a connect attempt.
C3_StoppedUntilServiceFound ==
    [][stopped =>
          /\ (Disconnected \/ SvcRemoved \/ Inbound) => StaysStopped
          /\ \A dev_id \in HubIds, ip \in Addresses :
                SvcAdd(dev_id, ip) =>
                   IF dev_id = unique_id /\ ip # "" /\ ~connected
                   THEN ~stopped' /\ tasks'["connect"] = tasks["connect"] + 1
                   ELSE StaysStopped]_vars

\* a service-found event with an empty address was handled while stopped
C3_Witness ==
    /\ stopped
    /\ ~connected
    /\ Len(calls) = 2
    /\ calls[2] = Call("log", unique_id, "ip address is not valid", <<>>)
\* C21: a connect attempt is issued only while the session is not connected and no
\* other connect attempt is in flight: a step of start(), of a service-found event or
\* of a reconnect() that adds a connect attempt starts from a state without either.
C21_NoConnectWhileConnectedOrConnecting ==
    [][tasks'["connect"] > tasks["connect"] => (~connected /\ tasks["connect"] = 0)]_vars
(***************************************************************************)
(* Claims about device setup (under SpecTopo)                              *)
(***************************************************************************)
\* what setup leaves behind: the collections without the calls made on the way
Core(g) == [parsed_devices |-> g.parsed_devices, scenes |-> g.scenes,
            registry |-> g.registry, hass_entities |-> g.hass_entities]

\* the calls of kind op that the handler made for eid
Emitted(g, op, eid) == SelectSeq(g.calls, LAMBDA c : c.op = op /\ c.id = eid)

\* the calls of kind op that the handler made
Made(g, op) == SelectSeq(g.calls, LAMBDA c : c.op = op)

\* the reducer's result as the state the next call starts from
Again(g) == [g EXCEPT !.calls = <<>>]

\* C4: setup_device is idempotent: from every reachable state and for every device
\* payload, a second run leaves the device map (availability, attributes, presentation
\* objects), the host registrations and the presentation objects as the first run left
\* them, and so does replaying an entityAvailable message a second and a third time.
C4_SetupDeviceIdempotent ==
    /\ \A d \in DevicePayloads :
          LET once == setup_device(G, d, d.services)
          IN  Core(setup_device(Again(once), d, d.services)) = Core(once)
    /\ \A msg \in AvailableMessages :
          LET once == on_entity_available(G, msg.entities)
              twice == on_entity_available(Again(once), msg.entities)
          IN  /\ Core(twice) = Core(once)
              /\ Core(on_entity_available(Again(twice), msg.entities)) = Core(once)

\* an entityAvailable message was handled for a device whose light was in the map before:
\* the handler made no host call, and the light has each presentation object once
C4_Witness ==
    /\ calls = <<Call("log", "", "EVENT: entityAvailable", <<>>),
                 Call("log", "d1", "setup", <<>>)>>
    /\ "d1-01" \in DOMAIN parsed_devices
    /\ parsed_devices["d1-01"].entities = <<"switch", "dimmer">>
    /\ hass_entities[<<"d1-01", "switch">>] = 1
    /\ hass_entities[<<"d1-01", "dimmer">>] = 1

EntityDeleted ==
    \E entities \in DeviceIdLists : EventMessage(Message("entityDeleted", entities))

\* the host calls of the latest step that create something for eid
Creations(eid) ==
    SelectSeq(calls, LAMBDA c : c.id = eid /\ c.op \in {"async_get_or_create", "ha_add_entity"})

\* C5: without entityDeleted, an eid once in the device map stays in it, and its host
\* registration and presentation objects are created exactly once: a step that is not
\* an entityDeleted keeps every eid with its presentation objects and makes no creating
\* host call for it, a step that adds an eid registers it once and adds each of its
\* presentation objects once, and every eid of the map is registered and has each of its
\* presentation objects exactly once.
C5_NoLossNoDuplicate ==
    /\ [](\A eid \in DOMAIN parsed_devices :
             /\ eid \in registry
             /\ parsed_devices[eid].entities # <<>>
             /\ \A i \in DOMAIN parsed_devices[eid].entities :
                   LET key == parsed_devices[eid].entities[i]
                   IN  /\ Get(hass_entities, <<eid, key>>, 0) = 1
                       /\ \A j \in DOMAIN parsed_devices[eid].entities :
                             parsed_devices[eid].entities[j] = key => j = i)
    /\ [][~EntityDeleted =>
             /\ \A eid \in DOMAIN parsed_devices :
                   /\ eid \in DOMAIN parsed_devices'
                   /\ parsed_devices'[eid].entities = parsed_devices[eid].entities
                   /\ Creations(eid)' = <<>>
             /\ \A eid \in DOMAIN parsed_devices' \ DOMAIN parsed_devices :
                   Len(Creations(eid)') = 1 + Len(parsed_devices'[eid].entities)]_vars

\* after a disconnect, a refresh met the light it had set up before: it made no host
\* call for it, and both devices are still in the map
C5_Witness ==
    /\ calls = <<Call("log", "d1", "setup", <<>>)>>
    /\ tasks["refresh_devicegroup"] = 1
    /\ connected
    /\ DOMAIN parsed_devices = {"d1-01", "d2-01"}
    /\ ~parsed_devices["d1-01"].available
    /\ ~parsed_devices["d2-01"].available

\* the payloads of an entityAvailable message that set up eid: devices that list it
Naming(entities, eid) ==
    SelectSeq(entities, LAMBDA d : d.type = "device"
                                   /\ \E i \in DOMAIN d.services : d.services[i].id = eid)

ReportsOrNames(msg, eid) ==
    \/ msg.type = "report" /\ \E i \in DOMAIN msg.entities : msg.entities[i].id = eid
    \/ msg.type = "entityAvailable" /\ \E i \in DOMAIN msg.entities :
           msg.entities[i].id = parsed_devices[eid].did

\* C8 as claimed: once a device is unavailable, the next report event for the entity or
\* entityAvailable event for its device makes it available again.
C8_ReportOrAvailableRestores ==
    [][\A msg \in AvailableMessages \cup ReportMessages :
          EventMessage(msg) =>
             \A eid \in DOMAIN parsed_devices :
                (~parsed_devices[eid].available /\ ReportsOrNames(msg, eid))
                   => parsed_devices'[eid].available]_vars

\* C8 as amended: once a device is unavailable, an entityAvailable event sets its flag to
\* the online value (true when absent) of the last device payload whose service list
\* names the entity, so it is restored unless that payload says online is false; a
\* payload that does not list the entity, and a report event, leave the flag false.
\* Stated of the handler's result in every state in which a message can arrive.
C8_AvailableRestoresToOnline ==
    (started /\ connected) =>
       /\ \A msg \in AvailableMessages :
             \A eid \in DOMAIN parsed_devices :
                ~parsed_devices[eid].available =>
                   LET naming == Naming(msg.entities, eid)
                   IN  HandleMessage(G, msg).parsed_devices[eid].available =
                          IF naming = <<>> THEN FALSE
                          ELSE Get(naming[Len(naming)], "online", TRUE)
       /\ \A msg \in ReportMessages :
             HandleMessage(G, msg).parsed_devices = parsed_devices

\* a report for the light was handled while the light was unavailable: it still is
C8_Witness ==
    /\ calls = <<Call("log", "", "EVENT: report", <<>>)>>
    /\ "d1-01" \in DOMAIN parsed_devices
    /\ ~parsed_devices["d1-01"].available
    /\ connected
(***************************************************************************)
(* Claims about the refresh and device setup (under SpecSetup)             *)
(***************************************************************************)
\* the coroutines of async_refresh_devices in flight
Refreshing ==
    tasks["refresh_room"] + tasks["refresh_device"] + tasks["refresh_devicegroup"]
        + tasks["refresh_scene"]

\* the coroutine that waited at suspension point `from` now waits at `to`
Moves(from, to) ==
    /\ tasks'[from] = tasks[from] - 1
    /\ tasks'[to] = tasks[to] + 1
    /\ Refreshing' = Refreshing

\* C14: a room fetch that raises is caught: the refresh logs it, keeps the room table it
\* had and goes on to the device fetch; the device fetch of that refresh sets its
\* devices up (areas resolved from the table, no error) and hands over to the device
\* group fetch, which hands over to the scene fetch, which ends the refresh.
C14_RoomFailureCaught ==
    [][/\ \A response \in RoomResponses :
             (Raised(response) /\ RefreshRooms(response)) =>
                /\ Moves("refresh_room", "refresh_device")
                /\ room_data' = room_data
                /\ calls' = <<Call("log", "", "fetch room error", <<>>)>>
       /\ RefreshDevices(Ok(<< Hub, D3 >>)) =>
             /\ Moves("refresh_device", "refresh_devicegroup")
             /\ unique_id \in registry'
             /\ "d3-01" \in DOMAIN parsed_devices'
             /\ \A i \in DOMAIN calls' : calls'[i].op # "raise"
       /\ RefreshDeviceGroups(Ok(<<>>)) => Moves("refresh_devicegroup", "refresh_scene")
       /\ RefreshScenes(Ok(<<>>)) =>
             /\ tasks'["refresh_scene"] = tasks["refresh_scene"] - 1
             /\ Refreshing' = Refreshing - 1]_vars

\* the room fetch of a second refresh raised: the table of the first refresh is kept,
\* and the refresh is at its device fetch
C14_Witness ==
    /\ calls = <<Call("log", "", "fetch room error", <<>>)>>
    /\ tasks["refresh_device"] = 1
    /\ room_data # EmptyDict
    /\ "d3-01" \in DOMAIN parsed_devices

\* hub-supplied name, else locale default, else the empty string
Resolved(room) ==
    IF room.name # "" THEN room.name
    ELSE IF room.id \in DOMAIN default_rooms THEN default_rooms[room.id]
    ELSE ""

\* the name the room table has for the room a payload names; "" when it names none, the
\* table lacks the room, or the room's name is empty
NameOf(data) ==
    IF "room" \in DOMAIN data /\ data.room \in DOMAIN room_data
    THEN room_data[data.room] ELSE ""

\* C17: the room fetch of a refresh maps each fetched room to its hub-supplied name when
\* that is not empty, otherwise to the locale default of its id, otherwise to the empty
\* string, and the table has no other room; device setup suggests the area of the
\* service's room, else of the device's room, else none, also when a payload names a
\* room the table lacks.
C17_RoomNameResolution ==
    /\ [][\A response \in RoomResponses :
             (~Raised(response) /\ RefreshRooms(response)) =>
                LET rooms == FetchData(response)
                IN  /\ DOMAIN room_data' = {rooms[i].id : i \in DOMAIN rooms}
                    /\ \A i \in DOMAIN rooms : room_data'[rooms[i].id] = Resolved(rooms[i])]_vars
    /\ [](\A d \in SetupPayloads :
             LET done == setup_device(G, d, d.services)
             IN  \A i \in DOMAIN d.services :
                    LET area == IF NameOf(d.services[i]) # "" THEN NameOf(d.services[i])
                                ELSE IF NameOf(d) # "" THEN NameOf(d)
                                ELSE UNDEFINED
                        made == Emitted(done, "async_get_or_create", d.services[i].id)
                    IN  \A k \in DOMAIN made : made[k].arg = area)

\* the hub gave room r1 no name, and the service of d4, which names r1, was registered
\* with the locale default as suggested area
C17_Witness ==
    /\ room_data = [r \in {"r1"} |-> "Living room"]
    /\ Len(calls) = 4
    /\ calls[3] = Call("async_get_or_create", "d4-01", "Living room", <<>>)

\* the attribute names a service reports
Reported(svc) == {svc.attributes[k].attr : k \in DOMAIN svc.attributes}

\* C18: after setup_device, every service eid of the call that is in the device map,
\* created by this call or before it, has the availability the payload's online value
\* gives (true when absent) and the state it had before (none for a new one) overlaid
\* with the attributes the service reports.
C18_SetupEndsWithUpdate ==
    \A d \in SetupPayloads :
       LET done == setup_device(G, d, d.services)
       IN  \A i \in DOMAIN d.services :
              LET svc == d.services[i]
                  eid == svc.id
                  before == IF eid \in DOMAIN parsed_devices
                            THEN parsed_devices[eid].state ELSE EmptyDict
              IN  eid \in DOMAIN done.parsed_devices =>
                     LET device == done.parsed_devices[eid]
                     IN  /\ device.available = Get(d, "online", TRUE)
                         /\ DOMAIN device.state = DOMAIN before \cup Reported(svc)
                         /\ \A k \in DOMAIN svc.attributes :
                               device.state[svc.attributes[k].attr] = svc.attributes[k].value
                         /\ \A a \in DOMAIN before \ Reported(svc) :
                               device.state[a] = before[a]

\* an entityAvailable message for the light, which an earlier call had created as a mere
\* switch and which was unavailable, was handled: no host call, available again
C18_Witness ==
    /\ calls = <<Call("log", "", "EVENT: entityAvailable", <<>>),
                 Call("log", "d1", "setup", <<>>)>>
    /\ "d1-01" \in DOMAIN parsed_devices
    /\ parsed_devices["d1-01"].entities = <<"switch">>
    /\ parsed_devices["d1-01"].available
    /\ parsed_devices["d1-01"].state = [on |-> 1, brightness |-> 5]

\* the condition under which setup_device exposes a service
Exposable(svc) ==
    /\ "profile" \in DOMAIN svc
    /\ svc.profile \in DOMAIN PROFILES
    /\ \E k \in DOMAIN PROFILES[svc.profile] :
          PROFILES[svc.profile][k].required_attrs \subseteq Reported(svc)

\* C19: setup_device adds an eid that the device map lacks, registers it with the host
\* and hands its presentation objects over exactly when the service's profile is in
\* PROFILES and some description of that profile has all its required attributes among
\* the reported ones; otherwise the eid stays out of the map, the registry and the
\* presentation objects, whatever calls went before.
C19_CreatedIffExposable ==
    \A d \in SetupPayloads :
       LET done == setup_device(G, d, d.services)
       IN  \A i \in DOMAIN d.services :
              LET svc == d.services[i]
                  eid == svc.id
              IN  eid \notin DOMAIN parsed_devices =>
                     IF Exposable(svc)
                     THEN /\ eid \in DOMAIN done.parsed_devices
                          /\ eid \in done.registry
                          /\ Len(Emitted(done, "async_get_or_create", eid)) = 1
                          /\ Len(Emitted(done, "ha_add_entity", eid)) >= 1
                     ELSE /\ eid \notin DOMAIN done.parsed_devices
                          /\ eid \in done.registry <=> eid \in registry
                          /\ Emitted(done, "async_get_or_create", eid) = <<>>
                          /\ Emitted(done, "ha_add_entity", eid) = <<>>
                          /\ \A key \in DOMAIN done.hass_entities : key[1] # eid

\* an entityAvailable message for d1 was handled while the map had neither service: the
\* service of the profile PROFILES lacks was logged and skipped, the light was created
C19_Witness ==
    /\ Len(calls) = 5
    /\ calls[3] = Call("log", "d1-02", "Unsupported profile", <<>>)
    /\ calls[4] = Call("async_get_or_create", "d1-01", UNDEFINED, <<>>)
    /\ calls[5] = Call("ha_add_entity", "d1-01", "switch", <<>>)
    /\ DOMAIN parsed_devices = {"d1-01"}
    /\ registry = {"d1-01"}

\* an entityAvailable message for the light without attributes was handled: nothing was
\* created, for the switch requires `on`
C19_WitnessSkipped ==
    /\ calls = <<Call("log", "", "EVENT: entityAvailable", <<>>),
                 Call("log", "d1", "setup", <<>>)>>
    /\ parsed_devices = EmptyDict
    /\ registry = {}
(***************************************************************************)
(* Claims about the export options (under SpecExport)                      *)
(***************************************************************************)
\* C6: with device-group export disabled, no device group is in the device map,
\* whichever path reported it.
C6_NoGroupWhenExportDisabled ==
    ~export_device_groups => "g1" \notin DOMAIN parsed_devices

\* C7: with scene export disabled, setup_scene has no effect: the Scenes map stays
\* empty, no scene presentation entity and no scenes device is registered, and
\* setup_scene of any scene payload returns the collections and the calls it was given.
C7_NoSceneWhenExportDisabled ==
    ~export_scenes =>
       /\ scenes = EmptyDict
       /\ scenes_device \notin registry
       /\ \A k \in DOMAIN hass_entities : k[2] # "scene"
       /\ \A p \in ScenePayloads : setup_scene(G, p) = G

\* with scene export disabled, a scene came in an entityCreated message (the handler
\* logged its debug line and nothing else) and after a refresh had fetched the scenes
C7_Witness ==
    /\ ~export_scenes
    /\ calls = <<Call("log", "", "EVENT: entityCreated", <<>>)>>
    /\ room_data = EmptyDict
    /\ connected
    /\ tasks["refresh_scene"] = 0
    /\ tasks["refresh_room"] = 0
    /\ tasks["refresh_device"] = 0
    /\ tasks["refresh_devicegroup"] = 0
\* C22: whenever setup_scene creates a scene presentation entity, the shared scenes
\* device is in the host registry: a step that hands a scene entity to the host, be it
\* the scene fetch of a refresh or an entityCreated or entityUpdated event, ends with
\* the scenes device registered.
C22_ScenesDeviceBeforeSceneEntity ==
    [][(\E i \in DOMAIN calls' : calls'[i].op = "ha_add_entity" /\ calls'[i].arg = "scene")
          => scenes_device \in registry']_vars

\* the scene payloads without actions
EmptyScenes == {p \in ScenePayloads : Len(Get(p, "actions", <<>>)) = 0}

\* C13: setup_scene of a payload whose actions list is empty changes nothing and makes
\* no call when the scene id is not in the Scenes map; when it is, the scene stays in
\* the map with its name and its attributes (its 'on' value) and is unavailable, and
\* nothing else changes and no entity is created.
C13_EmptyActionsDisables ==
    \A p \in EmptyScenes :
       LET done == setup_scene(G, p)
       IN  IF export_scenes /\ p.id \in DOMAIN scenes
           THEN done = [G EXCEPT !.scenes[p.id].available = FALSE]
           ELSE done = G

\* an entityUpdated message brought the scene "Movie" without actions after the scene
\* had been set up with on = 1: it is unavailable, still named "Movie", still on = 1
C13_Witness ==
    /\ calls = <<Call("log", "", "EVENT: entityUpdated", <<>>)>>
    /\ "scene-1" \in DOMAIN scenes
    /\ scenes["scene-1"] = [name |-> "Movie", available |-> FALSE, state |-> [on |-> 1]]
(***************************************************************************)
(* Claims about the commands (under SpecCmd)                               *)
(***************************************************************************)
\* the calls of a write that got through: the session client's write first, then
\* listener(data) once for every listener registered for eid, and nothing else
WriteThenListeners(api_call, eid, data) ==
    /\ calls'[1] = Call(api_call, eid, "", data)
    /\ Len(calls') = 1 + Cardinality(Get(listeners, eid, {}))
    /\ {calls'[i] : i \in 2..Len(calls')} =
           {Call("listener", eid, l, data) : l \in Get(listeners, eid, {})}

\* C9: a successful set_attribute(eid, attr, value) first writes through the session
\* client and then, in the same step and so without any inbound report, invokes every
\* listener registered for eid with exactly [{attr, value}]; set_attributes does the
\* same with the written attribute list.
C9_WriteThenNotify ==
    [][/\ \A eid \in Eids, value \in {0, 1} :
             SetAttribute(eid, "on", value, TRUE) =>
                WriteThenListeners("api.set_attribute", eid,
                                   <<[attr |-> "on", value |-> value]>>)
       /\ \A eid \in Eids, attrs \in AttrLists :
             SetAttributes(eid, attrs, TRUE) =>
                WriteThenListeners("api.set_attributes", eid, attrs)]_vars

\* set_attribute("d1-01", "on", 1) got through with two listeners registered
C9_Witness ==
    /\ Len(calls) = 3
    /\ calls[1] = Call("api.set_attribute", "d1-01", "", <<On(1)>>)
    /\ calls[2].op = "listener"
    /\ calls[2].data = <<On(1)>>
    /\ calls[3].data = <<On(1)>>
    /\ listeners["d1-01"] = {"L1", "L2"}

\* the calls of a write that failed: the one write, then the error; all else unchanged
WriteThenRaise(api_call, eid, data) ==
    /\ calls' = <<Call(api_call, eid, "", data), Call("raise", eid, "", <<>>)>>
    /\ UNCHANGED <<Session, listeners, room_data, Devices, Config>>

\* C10: when the session client's write fails in set_attribute or set_attributes, the
\* error reaches the caller, no listener is invoked, no local state changes, and the
\* write is made once only.
C10_FailedWritePropagates ==
    [][/\ \A eid \in Eids, value \in {0, 1} :
             SetAttribute(eid, "on", value, FALSE) =>
                WriteThenRaise("api.set_attribute", eid, <<[attr |-> "on", value |-> value]>>)
       /\ \A eid \in Eids, attrs \in AttrLists :
             SetAttributes(eid, attrs, FALSE) =>
                WriteThenRaise("api.set_attributes", eid, attrs)]_vars

\* set_attributes failed for an eid that has a listener
C10_Witness ==
    /\ calls = <<Call("api.set_attributes", "d2-01", "", <<On(0), Brightness(5)>>),
                 Call("raise", "d2-01", "", <<>>)>>
    /\ "d2-01" \in DOMAIN listeners
    /\ listeners["d2-01"] # {}
(***************************************************************************)
(* Claims about the inbound message types (under SpecEvents)               *)
(***************************************************************************)
\* C11: a keyPressed entry with times = N in 1..9 makes exactly one local trigger,
\* labelled for N presses, when the device map has the eid, and exactly one host bus
\* event carrying times N when the host registry has an entry for the eid; each channel
\* depends on its own target only, a channel without target emits nothing, and the
\* handler makes no other call and changes no collection.
C11_KeyPressedDualChannel ==
    (started /\ connected) =>
       \A eid \in ButtonEids, times \in 1..9 :
          LET done == HandleMessage(G, Message("keyPressed", <<Pressed(eid, times)>>))
              local == Emitted(done, "trigger_event", eid)
              host == Emitted(done, "bus.async_fire", eid)
          IN  /\ local = IF eid \in DOMAIN parsed_devices
                         THEN <<Call("trigger_event", eid, EVENT_ENTITY_BUTTON_EVENTS[times],
                                     ClickTimes(times))>>
                         ELSE <<>>
              /\ host = IF eid \in registry
                        THEN <<Call("bus.async_fire", eid, ACTION_PRESSED, ClickTimes(times))>>
                        ELSE <<>>
              /\ Len(done.calls) = 1 + Len(local) + Len(host)
              /\ Core(done) = Core(G)

\* a keyPressed message with times 3 was handled for a service that the device map and
\* the host registry both have: one trigger for a triple press, one bus event
C11_Witness ==
    /\ calls = <<Call("log", "", "EVENT: keyPressed", <<>>),
                 Call("trigger_event", "d1-01", "triple_press", ClickTimes(3)),
                 Call("bus.async_fire", "d1-01", ACTION_PRESSED, ClickTimes(3))>>
    /\ "d1-01" \in DOMAIN parsed_devices
    /\ "d1-01" \in registry

\* a keyPressed message was handled for the hub, which only the host registry has: the
\* bus event alone
C11_WitnessHostOnly ==
    /\ calls = <<Call("log", "", "EVENT: keyPressed", <<>>),
                 Call("bus.async_fire", unique_id, ACTION_PRESSED, ClickTimes(9))>>
    /\ unique_id \notin DOMAIN parsed_devices

\* C12: an entityDeleted event drops a known scene named by a scene-prefixed id from the
\* Scenes map, after marking it unavailable, with exactly one host entity-removal call;
\* for plain device ids it drops from the device map exactly the entries whose owning
\* device id is one of them, leaves every other entry as it was, and makes one host
\* device-removal call per dropped entry; an id nobody knows changes nothing.
C12_EntityDeletedRemoves ==
    (started /\ connected) =>
       \A msg \in DeletedMessages :
          LET done == HandleMessage(G, msg)
              ids == {msg.entities[i].id : i \in DOMAIN msg.entities}
              gone == {eid \in DOMAIN parsed_devices : parsed_devices[eid].did \in ids}
              gone_scenes == ids \cap DOMAIN scenes
          IN  /\ DOMAIN done.scenes = DOMAIN scenes \ gone_scenes
              /\ \A id \in DOMAIN done.scenes : done.scenes[id] = scenes[id]
              /\ \A id \in gone_scenes :
                    /\ Emitted(done, "er.async_remove", id) = <<Call("er.async_remove", id, "", <<>>)>>
                    /\ Len(Emitted(done, "set_available", id)) = 1
              /\ Len(Made(done, "er.async_remove")) = Cardinality(gone_scenes)
              /\ DOMAIN done.parsed_devices = DOMAIN parsed_devices \ gone
              /\ \A eid \in DOMAIN done.parsed_devices :
                    done.parsed_devices[eid] = parsed_devices[eid]
              /\ \A eid \in gone :
                    /\ Len(Emitted(done, "async_remove_device", eid)) = 1
                    /\ Len(Emitted(done, "set_available", eid)) = 1
                    /\ eid \notin done.registry
              /\ Len(Made(done, "async_remove_device")) = Cardinality(gone)

\* an entityDeleted message for device d1 was handled while the map had both services of
\* d1 and the service of d2: two host removals, and the service of d2 is still there
C12_Witness ==
    /\ Len(calls) = 5
    /\ calls[1] = Call("log", "", "EVENT: entityDeleted", <<>>)
    /\ Len(SelectSeq(calls, LAMBDA c : c.op = "async_remove_device")) = 2
    /\ DOMAIN parsed_devices = {"d2-01"}
    /\ registry \cap {"d1-01", "d1-02"} = {}

\* an entityDeleted message for scene-1 was handled while the scene was in the Scenes map
C12_WitnessScene ==
    /\ calls = <<Call("log", "", "EVENT: entityDeleted", <<>>),
                 Call("set_available", "scene-1", "False", <<>>),
                 Call("er.async_remove", "scene-1", "", <<>>)>>
    /\ scenes = EmptyDict

\* C15: the handle that add_listener(eid, callback) returned unregisters that callback
\* and nothing else, and makes no call: the registrations of every other callback and
\* of every other eid stay, a second invocation changes nothing more, whether or not
\* the entity is still in the device map; update_listeners for an eid without
\* registration invokes nothing.
C15_RemovalHandleIdempotent ==
    /\ [][\A eid \in Eids, listener \in Callbacks :
             RemoveListener(eid, listener) =>
                /\ DOMAIN listeners' = DOMAIN listeners
                /\ listeners'[eid] = listeners[eid] \ {listener}
                /\ \A e \in DOMAIN listeners \ {eid} : listeners'[e] = listeners[e]
                /\ calls' = <<>>
                /\ UNCHANGED <<Session, room_data, Devices, Config>>]_vars
    /\ [](\A eid \in DOMAIN listeners, listener \in Callbacks :
             LET once == remove_listener(listeners, eid, listener)
             IN  /\ remove_listener(once, eid, listener) = once
                 /\ once[eid] = listeners[eid] \ {listener})
    /\ [](\A eid \in Eids \cup {"d9-01"} :
             Get(listeners, eid, {}) = {} => update_listeners(G, eid, <<On(1)>>) = G)

\* every handle of the light was invoked, after the light was deleted or before it came:
\* the light has a registration without callbacks, the other eid kept both of its own
C15_Witness ==
    /\ calls = <<>>
    /\ DOMAIN listeners = {"d1-01", "d2-01"}
    /\ listeners["d1-01"] = {}
    /\ listeners["d2-01"] = {"L1", "L2"}
    /\ parsed_devices = EmptyDict
    /\ registry = {}
    /\ hass_entities = EmptyDict
    /\ connected

\* C16: an offline event sets unavailable every entry of the device map whose owning
\* device id is a payload id and changes nothing else: every other entry keeps its
\* record, the marked ones keep all but the flag, no entry, scene, registration or
\* listener comes or goes, and no listener or host call is made.
C16_OfflineMarksOwnedOnly ==
    [][\A msg \in OfflineMessages :
          EventMessage(msg) =>
             LET ids == {msg.entities[i].id : i \in DOMAIN msg.entities}
             IN  /\ DOMAIN parsed_devices' = DOMAIN parsed_devices
                 /\ \A eid \in DOMAIN parsed_devices :
                       parsed_devices'[eid] =
                          IF parsed_devices[eid].did \in ids
                          THEN [parsed_devices[eid] EXCEPT !.available = FALSE]
                          ELSE parsed_devices[eid]
                 /\ calls' = <<Call("log", "", "EVENT: offline", <<>>)>>
                 /\ UNCHANGED <<scenes, registry, hass_entities, listeners, room_data,
                                Session, Config>>]_vars

\* an offline message for d1 was handled while the map had both services of d1 and the
\* service of d2, all available: those of d1 are unavailable, that of d2 is not
C16_Witness ==
    /\ calls = <<Call("log", "", "EVENT: offline", <<>>)>>
    /\ DOMAIN parsed_devices = {"d1-01", "d1-02", "d2-01"}
    /\ ~parsed_devices["d1-01"].available
    /\ ~parsed_devices["d1-02"].available
    /\ parsed_devices["d2-01"].available
    /\ "scene-1" \in DOMAIN scenes
    /\ "d1-01" \in DOMAIN listeners

\* C20: a message without the entities key, without type, or with a type outside the
\* nine the dispatcher knows is dropped: device map, Scenes map, room table, listener
\* registry, stopped flag and host registry stay as they are, the handler makes no call
\* but its log line, and every message that follows is handled as if the dropped one
\* had never come.
C20_UnknownMessagesDropped ==
    /\ [][\A msg \in DroppedMessages :
             EventMessage(msg) =>
                /\ UNCHANGED <<parsed_devices, scenes, room_data, listeners, registry,
                               hass_entities, Session, Config>>
                /\ Len(calls') <= 1
                /\ \A i \in DOMAIN calls' : calls'[i].op = "log"]_vars
    /\ []((started /\ connected) =>
             \A msg \in DroppedMessages, next \in EventsMessages :
                HandleMessage(Again(HandleMessage(G, msg)), next) = HandleMessage(G, next))

\* a message of type "heartbeat" was handled while the light was in the map and had a
\* listener: the warning, and nothing else
C20_Witness ==
    /\ calls = <<Call("log", "heartbeat", "unsupported event type", <<>>)>>
    /\ "d1-01" \in DOMAIN parsed_devices
    /\ "d1-01" \in DOMAIN listeners
    /\ listeners["d1-01"] # {}
(***************************************************************************)
(* Claims about the entries of the device map (under SpecOwner)            *)
(***************************************************************************)
\* the step is an entityDeleted event that names device id did
DeletedBy(did) ==
    \E msg \in OwnerDeletions :
       /\ \E i \in DOMAIN msg.entities : msg.entities[i].id = did
       /\ EventMessage(msg)

\* C23: every entry of the device map is keyed by its own entity id and holds at least
\* one presentation object; from step to step an entry keeps its owning device id, its
\* profile and its presentation objects, also when another device lists its eid, and it
\* leaves the map only by an entityDeleted event that names its owning device id.
C23_DeviceMapEntries ==
    /\ [](\A eid \in DOMAIN parsed_devices :
             /\ parsed_devices[eid].eid = eid
             /\ parsed_devices[eid].entities # <<>>)
    /\ [][\A eid \in DOMAIN parsed_devices :
             IF eid \in DOMAIN parsed_devices'
             THEN /\ parsed_devices'[eid].did = parsed_devices[eid].did
                  /\ parsed_devices'[eid].profile = parsed_devices[eid].profile
                  /\ parsed_devices'[eid].entities = parsed_devices[eid].entities
             ELSE DeletedBy(parsed_devices[eid].did)]_vars

\* an entityAvailable message in which device d5 lists the first service of d1 was
\* handled while the map had that service: it is still the switch of d1
C23_Witness ==
    /\ calls = <<Call("log", "", "EVENT: entityAvailable", <<>>),
                 Call("log", "d5", "setup", <<>>)>>
    /\ "d1-01" \in DOMAIN parsed_devices
    /\ parsed_devices["d1-01"].did = "d1"
    /\ parsed_devices["d1-01"].profile = 1
    /\ parsed_devices["d1-01"].entities = <<"switch">>
    /\ parsed_devices["d1-01"].state = [on |-> 0]
====
